---- MODULE Spec2Model ----
(***************************************************************************)
(* Model of the IFC optimizer (src/src/optimizer.py): the entity graph,    *)
(* the storage-engine calls the passes use, every pass of the pipeline,    *)
(* and five drivers: the pipeline optimize_ifc (Spec), direct calls of    *)
(* the module-level pass functions (CallSpec), the command-line entry      *)
(* point main (CliSpec), the text-level rounding apply_lossy_rounding      *)
(* (RoundSpec), and the background worker and completion handler of the    *)
(* window, src/gui.py (GuiSpec).                                           *)
(***************************************************************************)
EXTENDS Integers, Sequences, FiniteSets, TLC

\* Number of entities of a loaded graph.
NumEntities == 4

Ids == 1..NumEntities

\* The value of an unset reference slot (Python None).
NULL == 0

----------------------------------------------------------------------------
(* Entity types and the slice of the IFC schema the passes look at.        *)

\* Type tags in file order: a loaded graph lists its entities in this order,
\* so by_type order within one type is the order of identifiers.
TypeOrder ==
    << "IfcOwnerHistory", "IfcProject", "IfcCartesianPoint",
       "IfcShapeRepresentation", "IfcLocalPlacement", "IfcMaterial",
       "IfcClassificationReference", "IfcPropertySingleValue",
       "IfcPropertySet",
       "IfcSpace", "IfcBuildingStorey", "IfcWall",
       "IfcRelAggregates", "IfcRelContainedInSpatialStructure",
       "IfcRelDefinesByProperties", "IfcRelAssignsToGroup",
       "IfcRelAssociatesMaterial", "IfcRelAssociatesClassification" >>

Types == {TypeOrder[k] : k \in DOMAIN TypeOrder}

Rank(t) == CHOOSE k \in DOMAIN TypeOrder : TypeOrder[k] = t

\* entity.is_a(T): the type itself or one of its supertypes.
Supertypes(t) ==
    CASE t = "IfcSpace"          -> {"IfcSpace", "IfcSpatialStructureElement", "IfcProduct"}
      [] t = "IfcBuildingStorey" -> {"IfcBuildingStorey", "IfcSpatialStructureElement", "IfcProduct"}
      [] t = "IfcWall"           -> {"IfcWall", "IfcElement", "IfcProduct"}
      [] OTHER                   -> {t}

IsA(t, T) == T \in Supertypes(t)

\* Reference slots of each type: for every slot, the types it may point to.
Schema(t) ==
    CASE t = "IfcProject"   -> << {"IfcOwnerHistory"} >>
      [] t = "IfcShapeRepresentation" -> << {"IfcCartesianPoint"}, {"IfcCartesianPoint"} >>
      [] t = "IfcLocalPlacement" -> << {"IfcLocalPlacement"} >>
      [] t = "IfcClassificationReference" -> << {"IfcClassificationReference"} >>
      [] t = "IfcPropertySet" ->
            << {"IfcPropertySingleValue"}, {"IfcPropertySingleValue"} >>
      [] t = "IfcSpace" -> << {"IfcLocalPlacement"}, {"IfcOwnerHistory"} >>
      [] t = "IfcBuildingStorey" -> << {"IfcLocalPlacement"} >>
      [] t = "IfcWall" -> << {"IfcShapeRepresentation"}, {"IfcOwnerHistory"} >>
      [] t = "IfcRelAggregates" ->
            << {"IfcProject", "IfcBuildingStorey", "IfcSpace"},
               {"IfcBuildingStorey", "IfcSpace"} >>
      [] t = "IfcRelContainedInSpatialStructure" ->
            << {"IfcWall"}, {"IfcBuildingStorey", "IfcSpace"} >>
      [] t = "IfcRelDefinesByProperties" ->
            << {"IfcSpace", "IfcWall"}, {"IfcPropertySet"} >>
      [] t = "IfcRelAssignsToGroup" -> << {"IfcWall"} >>
      [] t = "IfcRelAssociatesMaterial" -> << {"IfcWall"}, {"IfcMaterial"} >>
      [] t = "IfcRelAssociatesClassification" ->
            << {"IfcWall"}, {"IfcClassificationReference"} >>
      [] OTHER -> << >>

\* Values of the one primitive attribute kept per type: Coordinates of a
\* point, Identification of a classification reference, NominalValue of a
\* property ("None": the optional attribute is unset), Name otherwise.
Vals(t) ==
    CASE t = "IfcCartesianPoint" -> {"0.0", "1.0"}
      [] t = "IfcClassificationReference" -> {"A"}
      [] t = "IfcPropertySingleValue" -> {"-", " - ", "x", "None"}
      [] OTHER -> {"n"}

\* Types whose two slots are one aggregate attribute (HasProperties, Items):
\* its members are listed without gaps, in ascending order.
AggregateTypes == {"IfcPropertySet", "IfcShapeRepresentation"}

\* The graphs that are loaded hold entities of one of these families.
Palettes ==
    { {"IfcCartesianPoint", "IfcShapeRepresentation"},
      {"IfcClassificationReference", "IfcRelAssociatesClassification"},
      {"IfcPropertySingleValue", "IfcPropertySet", "IfcSpace", "IfcRelDefinesByProperties"},
      {"IfcLocalPlacement", "IfcSpace", "IfcRelAggregates"},
      {"IfcBuildingStorey", "IfcWall", "IfcRelContainedInSpatialStructure"},
      {"IfcOwnerHistory", "IfcProject", "IfcWall"},
      {"IfcShapeRepresentation", "IfcWall", "IfcRelAssignsToGroup"},
      {"IfcMaterial", "IfcWall", "IfcRelAssociatesMaterial"} }

Typings ==
    UNION { { ty \in [Ids -> P] :
                \A i \in Ids, j \in Ids : i < j => Rank(ty[i]) <= Rank(ty[j]) }
            : P \in Palettes }

Targets(ty, i, allowed) == {NULL} \cup {j \in Ids \ {i} : ty[j] \in allowed}

RefChoices(ty, i) ==
    LET s == Schema(ty[i]) IN
    CASE Len(s) = 0 -> { << >> }
      [] Len(s) = 1 -> { << a >> : a \in Targets(ty, i, s[1]) }
      [] OTHER ->
            { r \in { << a, b >> : a \in Targets(ty, i, s[1]), b \in Targets(ty, i, s[2]) } :
                ty[i] \in AggregateTypes =>
                    /\ r[1] = NULL => r[2] = NULL
                    /\ r[2] # NULL => r[1] < r[2] }

EntityChoices(ty, i) ==
    { [type |-> ty[i], val |-> v, refs |-> r] : v \in Vals(ty[i]), r \in RefChoices(ty, i) }

RECURSIVE Build(_, _)
Build(ty, n) ==
    IF n = 0 THEN { << >> }
    ELSE { Append(g, e) : g \in Build(ty, n - 1), e \in EntityChoices(ty, n) }

\* Identifiers an entity refers to (unset slots left out).
RefsOf(e) == {e.refs[k] : k \in DOMAIN e.refs} \ {NULL}

RECURSIVE Reach(_, _, _)
Reach(g, from, n) ==
    IF n = 0 THEN from
    ELSE Reach(g, from \cup UNION {RefsOf(g[i]) : i \in from \cap DOMAIN g}, n - 1)

\* No entity refers to itself, directly or through others.
Acyclic(g) ==
    \A i \in DOMAIN g : i \notin Reach(g, RefsOf(g[i]), NumEntities)

----------------------------------------------------------------------------
(* The storage engine (ifcopenshell), as the passes use it.  A model is a  *)
(* function from the identifiers of its entities to their records.         *)

Min(S) == CHOOSE x \in S : \A y \in S : x <= y

RECURSIVE SeqOf(_)
SeqOf(S) == IF S = {} THEN << >> ELSE << Min(S) >> \o SeqOf(S \ {Min(S)})

\* by_type without its type filter.
ByType_AnyType(m, T) == SeqOf(DOMAIN m)

\* model.by_type(T): the entities of type T (subtypes included), in order.
ByType(m, T) == SeqOf({i \in DOMAIN m : IsA(m[i].type, T)})

\* iter(model): every entity, in order.
AllEntities(m) == SeqOf(DOMAIN m)

\* model.get_inverse(e): the entities of the model that refer to e.
GetInverse(m, e) == {i \in DOMAIN m : e \in RefsOf(m[i])}

\* The rewrite made on a copy: the entity stays as it was and a new entity,
\* under the next free identifier, holds the rewritten slots.
ReplaceAttribute_Copy(m, inv, old, new) ==
    LET fresh == (CHOOSE i \in DOMAIN m : \A j \in DOMAIN m : j <= i) + 1
    IN  [i \in DOMAIN m \cup {fresh} |->
            IF i = fresh
            THEN [m[inv] EXCEPT !.refs = [k \in DOMAIN @ |-> IF @[k] = old THEN new ELSE @[k]]]
            ELSE m[i]]

\* replace_attribute(inv, old, new): every slot of inv that holds old holds
\* new afterwards.
ReplaceAttribute(m, inv, old, new) ==
    [m EXCEPT ![inv].refs = [k \in DOMAIN @ |-> IF @[k] = old THEN new ELSE @[k]]]

\* What model.remove does to the entities that still refer to the victim is
\* the engine's business: it leaves their slots alone ("drop") or it unsets
\* them ("nullify").  The optimizer runs on either.
Engines == {"drop", "nullify"}

\* model.remove(e).
Remove(m, eng, e) ==
    [i \in DOMAIN m \ {e} |->
        IF eng = "nullify"
        THEN [m[i] EXCEPT !.refs = [k \in DOMAIN @ |-> IF @[k] = e THEN NULL ELSE @[k]]]
        ELSE m[i]]

\* A pass threads the model and the set of entities it removed while some
\* entity still referred to them.
Start(m) == [m |-> m, forced |-> {}]

RemoveEntity(st, eng, e) ==
    [m |-> Remove(st.m, eng, e),
     forced |-> st.forced \cup (IF GetInverse(st.m, e) # {} THEN {e} ELSE {})]

RECURSIVE RemoveAll(_, _, _, _)
RemoveAll(st, eng, seq, k) ==
    IF k > Len(seq) THEN st
    ELSE RemoveAll(RemoveEntity(st, eng, seq[k]), eng, seq, k + 1)

\* The retargeting loop stopping after the first referencing entity.
ReplaceInAll_FirstOnly(m, invs, old, new) ==
    IF invs = {} THEN m ELSE ReplaceAttribute(m, Min(invs), old, new)

RECURSIVE ReplaceInAll(_, _, _, _)
\* for inv in model.get_inverse(old): replace_attribute(inv, old, new)
ReplaceInAll(m, invs, old, new) ==
    IF invs = {} THEN m
    ELSE LET inv == Min(invs) IN
         ReplaceInAll(ReplaceAttribute(m, inv, old, new), invs \ {inv}, old, new)

\* What a pass hands back: the model, the returned count, the entities removed
\* while referenced, and whether the pass raised instead of returning.
Result(st, n) == [m |-> st.m, ret |-> n, forced |-> st.forced, raised |-> FALSE]

Raised(m) == [m |-> m, ret |-> 0, forced |-> {}, raised |-> TRUE]

\* The entry of a dict for a key (NULL when the key is absent); a dict is a
\* set of << key, entity >> pairs with one pair per key.
Lookup(seen, key) ==
    IF \E p \in seen : p[1] = key THEN (CHOOSE p \in seen : p[1] = key)[2] ELSE NULL

----------------------------------------------------------------------------
(* The passes.                                                             *)

\* tuple(float(c) for c in pt.Coordinates)
PointKey(m, pt) == m[pt].val

RECURSIVE MergeScan(_, _, _, _, _)
MergeScan(m, pts, k, seen, dupes) ==
    IF k > Len(pts) THEN [m |-> m, dupes |-> dupes]
    ELSE LET pt == pts[k]
             key == PointKey(m, pt)
             canon == Lookup(seen, key)
         IN  IF canon # NULL
             THEN MergeScan(ReplaceInAll(m, GetInverse(m, pt), pt, canon),
                            pts, k + 1, seen, Append(dupes, pt))
             ELSE MergeScan(m, pts, k + 1, seen \cup {<< key, pt >>}, dupes)

merge_cartesian_points(m, eng) ==
    LET scan == MergeScan(m, ByType(m, "IfcCartesianPoint"), 1, {}, << >>)
    IN  Result(RemoveAll(Start(scan.m), eng, scan.dupes, 1), Len(scan.dupes))

\* (inst.is_a(),) + tuple(inst.get_info(recursive=False).values())
StructuralKey(m, inst) == << m[inst].type, m[inst].val, m[inst].refs >>

RECURSIVE DedupeScan(_, _, _, _, _)
DedupeScan(m, insts, k, seen, dupes) ==
    IF k > Len(insts) THEN [m |-> m, dupes |-> dupes]
    ELSE LET inst == insts[k]
             key == StructuralKey(m, inst)
             canon == Lookup(seen, key)
         IN  IF canon # NULL
             THEN DedupeScan(ReplaceInAll(m, GetInverse(m, inst), inst, canon),
                             insts, k + 1, seen, Append(dupes, inst))
             ELSE DedupeScan(m, insts, k + 1, seen \cup {<< key, inst >>}, dupes)

model_level_dedupe(m, eng, entity_type) ==
    LET scan == DedupeScan(m, ByType(m, entity_type), 1, {}, << >>)
    IN  Result(RemoveAll(Start(scan.m), eng, scan.dupes, 1), Len(scan.dupes))

\* The members of an aggregate attribute: the set slots, in order.
Members(e) == SelectSeq(e.refs, LAMBDA x : x # NULL)

\* A member list written back to the slots of an aggregate attribute.
Slots(e, members) ==
    [k \in DOMAIN e.refs |-> IF k <= Len(members) THEN members[k] ELSE NULL]

\* str(value).strip()
Strip(v) ==
    CASE v = " -" -> "-"
      [] v = "- " -> "-"
      [] v = " - " -> "-"
      [] OTHER -> v

\* The inner loop of remove_placeholder_properties over pset.HasProperties:
\* the properties to keep, the number dropped, and whether reading
\* prop.NominalValue.wrappedValue raised (NominalValue is None).
RECURSIVE PropScan(_, _, _, _, _, _)
PropScan(m, props, k, placeholder, keep, deleted) ==
    IF k > Len(props) THEN [keep |-> keep, deleted |-> deleted, raised |-> FALSE]
    ELSE LET prop == props[k] IN
         IF prop \notin DOMAIN m
         THEN [keep |-> keep, deleted |-> deleted, raised |-> TRUE]
         ELSE IF IsA(m[prop].type, "IfcPropertySingleValue")
         THEN IF m[prop].val = "None"
              THEN [keep |-> keep, deleted |-> deleted, raised |-> TRUE]
              ELSE IF Strip(m[prop].val) = placeholder
                   THEN PropScan(m, props, k + 1, placeholder, keep, deleted + 1)
                   ELSE PropScan(m, props, k + 1, placeholder, Append(keep, prop), deleted)
         ELSE PropScan(m, props, k + 1, placeholder, Append(keep, prop), deleted)

RECURSIVE PsetScan(_, _, _, _, _, _)
PsetScan(m, psets, k, placeholder, deleted, empty_psets) ==
    IF k > Len(psets)
    THEN [m |-> m, deleted |-> deleted, empty_psets |-> empty_psets, raised |-> FALSE]
    ELSE LET pset == psets[k]
             scan == PropScan(m, Members(m[pset]), 1, placeholder, << >>, 0)
         IN  IF scan.raised
             THEN [m |-> m, deleted |-> deleted, empty_psets |-> empty_psets, raised |-> TRUE]
             ELSE IF scan.keep # << >>
             THEN PsetScan([m EXCEPT ![pset].refs = Slots(m[pset], scan.keep)],
                           psets, k + 1, placeholder, deleted + scan.deleted, empty_psets)
             ELSE PsetScan(m, psets, k + 1, placeholder, deleted + scan.deleted,
                           Append(empty_psets, pset))

\* The defining relations left in place.
RemoveDefiningRels_None(st, eng, pset) == st

\* for rel in model.get_inverse(pset): remove it if it is a defining relation
RemoveDefiningRels(st, eng, pset) ==
    RemoveAll(st, eng,
              SeqOf({rel \in GetInverse(st.m, pset) :
                        IsA(st.m[rel].type, "IfcRelDefinesByProperties")}), 1)

RECURSIVE RemoveEmptyPsets(_, _, _, _)
RemoveEmptyPsets(st, eng, psets, k) ==
    IF k > Len(psets) THEN st
    ELSE RemoveEmptyPsets(RemoveEntity(RemoveDefiningRels(st, eng, psets[k]), eng, psets[k]),
                          eng, psets, k + 1)

remove_placeholder_properties(m, eng, placeholder) ==
    LET scan == PsetScan(m, ByType(m, "IfcPropertySet"), 1, placeholder, 0, << >>)
    IN  IF scan.raised THEN Raised(scan.m)
        ELSE Result(RemoveEmptyPsets(Start(scan.m), eng, scan.empty_psets, 1), scan.deleted)

\* ref.is_a((A, B)), a tuple handed to is_a: the library either answers
\* whether ref is of one of the types, or rejects the argument.
TupleIsA == {"any_of", "type_error"}

\* The unused list of remove_unused_spaces.
UnusedSpaces(m) ==
    SelectSeq(ByType(m, "IfcSpace"),
              LAMBDA space :
                  ~ \E ref \in GetInverse(m, space) :
                        ~ ( IsA(m[ref].type, "IfcLocalPlacement")
                            \/ IsA(m[ref].type, "IfcRelDefinesByProperties") ))

\* is_a is asked about the first referrer of the first referenced space.
AsksTupleIsA(m) == \E space \in DOMAIN m : IsA(m[space].type, "IfcSpace") /\ GetInverse(m, space) # {}

remove_unused_spaces(m, eng, tup) ==
    LET unused == UnusedSpaces(m)
    IN  IF tup = "type_error" /\ AsksTupleIsA(m) THEN Raised(m)
        ELSE Result(RemoveAll(Start(m), eng, unused, 1), Len(unused))

\* The trim that keeps no owner history.
remove_metadata_KeepNone(m, eng) ==
    LET owner_histories == ByType(m, "IfcOwnerHistory")
    IN  Result(RemoveAll(Start(m), eng, owner_histories, 1), Len(owner_histories))

remove_metadata(m, eng) ==
    LET owner_histories == ByType(m, "IfcOwnerHistory")
    IN  IF owner_histories # << >>
        THEN Result(RemoveAll(Start(m), eng, Tail(owner_histories), 1),
                    Len(owner_histories) - 1)
        ELSE Result(Start(m), 0)

\* value in ("", None, 0, 0.0, "NOTDEFINED"); an aggregate is a tuple and
\* never one of these.
EmptyValue(v) == v \in {"", "None", "NOTDEFINED"}

\* How many attributes of one entity remove_empty_attributes sets to None.
EmptyAttributes(e) ==
    (IF EmptyValue(e.val) THEN 1 ELSE 0)
    + (IF e.type \in AggregateTypes THEN 0
       ELSE Cardinality({k \in DOMAIN e.refs : e.refs[k] = NULL}))

RECURSIVE ClearScan(_, _, _, _)
ClearScan(m, ents, k, cleared) ==
    IF k > Len(ents) THEN [m |-> m, cleared |-> cleared]
    ELSE LET entity == ents[k] IN
         ClearScan([m EXCEPT ![entity].val = IF EmptyValue(@) THEN "None" ELSE @],
                   ents, k + 1, cleared + EmptyAttributes(m[entity]))

remove_empty_attributes(m, eng) ==
    LET scan == ClearScan(m, AllEntities(m), 1, 0)
    IN  Result(Start(scan.m), scan.cleared)

RECURSIVE UnusedPsetScan(_, _, _, _, _)
UnusedPsetScan(st, eng, psets, k, removed) ==
    IF k > Len(psets) THEN Result(st, removed)
    ELSE LET pset == psets[k] IN
         IF Members(st.m[pset]) = << >> /\ GetInverse(st.m, pset) = {}
         THEN UnusedPsetScan(RemoveEntity(RemoveDefiningRels(st, eng, pset), eng, pset),
                             eng, psets, k + 1, removed + 1)
         ELSE UnusedPsetScan(st, eng, psets, k + 1, removed)

remove_unused_property_sets(m, eng) ==
    UnusedPsetScan(Start(m), eng, ByType(m, "IfcPropertySet"), 1, 0)

\* The loop shared by remove_unused_materials and
\* remove_unused_classifications: the inverse set is read when the entity is
\* visited, after the removals made so far.
RECURSIVE UnreferencedScan(_, _, _, _, _)
UnreferencedScan(st, eng, ents, k, removed) ==
    IF k > Len(ents) THEN Result(st, removed)
    ELSE IF GetInverse(st.m, ents[k]) = {}
         THEN UnreferencedScan(RemoveEntity(st, eng, ents[k]), eng, ents, k + 1, removed + 1)
         ELSE UnreferencedScan(st, eng, ents, k + 1, removed)

remove_unused_materials(m, eng) ==
    UnreferencedScan(Start(m), eng, ByType(m, "IfcMaterial"), 1, 0)

remove_unused_classifications(m, eng) ==
    UnreferencedScan(Start(m), eng, ByType(m, "IfcClassificationReference"), 1, 0)

\* What shape.get_volume answers for an element: it raises, or returns None,
\* or not-a-number, or 0.0, or a positive volume below 0.001, or a volume of
\* at least 0.001.
VolumeResults == {"raises", "none", "nan", "zero", "small", "large"}

\* bool(vol)
Truthy(vol) == vol \notin {"zero", "none"}

\* Every volume taken for below the threshold.
BelowMinVolume_Any(vol, min_volume) == TRUE

\* vol < min_volume (false for not-a-number; min_volume is 0.001, or 0.0,
\* which is also what False compares as)
BelowMinVolume(vol, min_volume) ==
    IF min_volume = "0.001" THEN vol \in {"zero", "small"} ELSE FALSE

\* element.Representation (slot 1 of an element)
Representation(e) == e.refs[1]

\* The elements remove_small_elements asks the volume of.
Measured(m) ==
    {i \in DOMAIN m : IsA(m[i].type, "IfcElement") /\ Representation(m[i]) # NULL}

RECURSIVE SmallScan(_, _, _, _, _, _, _)
SmallScan(st, eng, elements, k, min_volume, vols, removed) ==
    IF k > Len(elements) THEN Result(st, removed)
    ELSE LET element == elements[k] IN
         IF /\ Representation(st.m[element]) # NULL
            /\ vols[element] # "raises"
            /\ Truthy(vols[element])
            /\ BelowMinVolume(vols[element], min_volume)
         THEN SmallScan(RemoveEntity(st, eng, element), eng, elements, k + 1,
                        min_volume, vols, removed + 1)
         ELSE SmallScan(st, eng, elements, k + 1, min_volume, vols, removed)

\* vols: the answer of shape.get_volume for every element of Measured(m)
remove_small_elements(m, eng, min_volume, vols) ==
    SmallScan(Start(m), eng, ByType(m, "IfcElement"), 1, min_volume, vols, 0)

\* A type name as the pieces that string prefixes are taken over.
Tokens(t) ==
    CASE t = "IfcRelAggregates" -> << "IfcRel", "Aggregates" >>
      [] t = "IfcRelNests" -> << "IfcRel", "Nests" >>
      [] t = "IfcRelContainedInSpatialStructure" -> << "IfcRel", "ContainedInSpatialStructure" >>
      [] t = "IfcRelDefinesByProperties" -> << "IfcRel", "DefinesBy", "Properties" >>
      [] t = "IfcRelDefinesByType" -> << "IfcRel", "DefinesBy", "Type" >>
      [] t = "IfcRelDefinesByTemplate" -> << "IfcRel", "DefinesBy", "Template" >>
      [] t = "IfcRelAssigns" -> << "IfcRel", "Assigns" >>
      [] t = "IfcRelAssignsToGroup" -> << "IfcRel", "Assigns", "ToGroup" >>
      [] t = "IfcRelConnects" -> << "IfcRel", "Connects" >>
      [] t = "IfcRelAssociatesMaterial" -> << "IfcRel", "Associates", "Material" >>
      [] t = "IfcRelAssociatesClassification" -> << "IfcRel", "Associates", "Classification" >>
      [] t = "IfcRel" -> << "IfcRel" >>
      [] OTHER -> << t >>

\* t.startswith(k)
StartsWith(t, k) ==
    /\ Len(Tokens(k)) <= Len(Tokens(t))
    /\ SubSeq(Tokens(t), 1, Len(Tokens(k))) = Tokens(k)

KEEP_REL ==
    { "IfcRelContainedInSpatialStructure", "IfcRelAggregates", "IfcRelNests",
      "IfcRelDefinesByProperties", "IfcRelDefinesByType", "IfcRelAssigns",
      "IfcRelConnects" }

\* The two "continue" tests of remove_orphaned_entities.
NeverDeleted(t) == t \in {"IfcProject", "IfcOwnerHistory"}

\* The kept relations tested by equality of names instead of by prefix.
EssentialRelation_ExactName(t) == t \in KEEP_REL

EssentialRelation(t) == StartsWith(t, "IfcRel") /\ \E k \in KEEP_REL : StartsWith(t, k)

\* The orphans list of remove_orphaned_entities.
Orphans(m) ==
    SelectSeq(AllEntities(m),
              LAMBDA ent : /\ ~ NeverDeleted(m[ent].type)
                           /\ ~ EssentialRelation(m[ent].type)
                           /\ GetInverse(m, ent) = {})

remove_orphaned_entities(m, eng) ==
    LET orphans == Orphans(m)
    IN  Result(RemoveAll(Start(m), eng, orphans, 1), Len(orphans))

\* hash(tuple(shp.Items))
GeometryKey(m, shp) == m[shp].refs

RECURSIVE GeometryScan(_, _, _, _, _, _)
GeometryScan(st, eng, shps, k, geometry_map, duplicates) ==
    IF k > Len(shps) THEN Result(st, duplicates)
    ELSE LET shp == shps[k]
             key == GeometryKey(st.m, shp)
             canon == Lookup(geometry_map, key)
         IN  IF canon # NULL
             THEN GeometryScan(
                    RemoveEntity([st EXCEPT !.m = ReplaceInAll(@, GetInverse(@, shp), shp, canon)],
                                 eng, shp),
                    eng, shps, k + 1, geometry_map, duplicates + 1)
             ELSE GeometryScan(st, eng, shps, k + 1, geometry_map \cup {<< key, shp >>},
                               duplicates)

deduplicate_geometry(m, eng) ==
    GeometryScan(Start(m), eng, ByType(m, "IfcShapeRepresentation"), 1, {}, 0)

\* spatial.ContainsElements: the containment relations whose
\* RelatingStructure (slot 2) is the spatial element.
ContainsElements(m, spatial) ==
    {rel \in DOMAIN m : /\ IsA(m[rel].type, "IfcRelContainedInSpatialStructure")
                        /\ m[rel].refs[2] = spatial}

RECURSIVE FlattenScan(_, _, _, _, _)
FlattenScan(st, eng, spatials, k, removed) ==
    IF k > Len(spatials) THEN Result(st, removed)
    ELSE IF ContainsElements(st.m, spatials[k]) = {}
         THEN FlattenScan(RemoveEntity(st, eng, spatials[k]), eng, spatials, k + 1, removed + 1)
         ELSE FlattenScan(st, eng, spatials, k + 1, removed)

flatten_spatial_structure(m, eng) ==
    FlattenScan(Start(m), eng, ByType(m, "IfcSpatialStructureElement"), 1, 0)

----------------------------------------------------------------------------
(* State.                                                                  *)

VARIABLES
    model,      \* the entity graph
    engine,     \* what the engine does on removing a referenced entity, once seen
    tuple_is_a, \* what is_a does with a tuple of types, once seen
    pre,        \* the graph as it was when the last pass was called
    last,       \* the name of the last pass called ("" before the first)
    arg,        \* its entity_type or placeholder argument ("" when it has none)
    volume,     \* the volumes shape.get_volume answered in the last pass
    ret,        \* the count the last pass returned
    forced,     \* the entities the last pass removed while still referenced
    raised,     \* the last pass raised instead of returning
    pc,         \* where the driver is
    options,    \* optimize_ifc: the options mapping
    stats,      \* optimize_ifc: the stats mapping
    written,    \* optimize_ifc: the graph written to output_path (<< >> before)
    tmp_files,  \* optimize_ifc: the list tmp_files
    disk,       \* optimize_ifc: the files it created that exist, other than output_path
    steps,      \* optimize_ifc: the steps executed so far, in order
    error,      \* optimize_ifc: the error handed to the caller (<< >> when none)
    messages,   \* OptimizerThread: the completion messages emitted
    output_file, \* the output path optimize_ifc and the worker are given
    archive,    \* optimize_ifc: the path write_ifczip wrote to (<< >> when none)
    report,     \* the window: what on_optimization_finished did with each message
    raw,        \* apply_lossy_rounding: the text it is given
    precision,  \* apply_lossy_rounding: its precision argument
    once,       \* apply_lossy_rounding(raw, precision)
    twice       \* apply_lossy_rounding(once, precision)

vars == << model, engine, tuple_is_a, pre, last, arg, volume, ret, forced, raised, pc,
           options, stats, written, tmp_files, disk, steps, error, messages,
           output_file, archive, report,
           raw, precision, once, twice >>

driverVars == << tmp_files, disk, steps, error >>

textVars == << raw, precision, once, twice >>

pathVars == << output_file, archive, report >>

passVars == << model, engine, tuple_is_a, pre, last, arg, volume, ret, forced, raised >>

\* The engine behaviours still possible, and what is known after a pass.
EngineChoices == IF engine = "unobserved" THEN Engines ELSE {engine}

TupleChoices == IF tuple_is_a = "unobserved" THEN TupleIsA ELSE {tuple_is_a}

\* The state after a pass called as name(model, a) handed back res.
FinishWith(res, eng, tup, name, a, vols) ==
    /\ model' = res.m
    /\ pre' = model
    /\ last' = name
    /\ arg' = a
    /\ volume' = vols
    /\ ret' = res.ret
    /\ forced' = res.forced
    /\ raised' = res.raised
    /\ engine' = IF res.forced # {} THEN eng ELSE engine
    /\ tuple_is_a' = tup

Finish(res, eng, name, a, vols) == FinishWith(res, eng, tuple_is_a, name, a, vols)

NoVolumes == << >>

\* No driver, worker or rounding state.
NoDriver == tmp_files = << >> /\ disk = {} /\ steps = << >> /\ error = << >>

NoText == raw = << >> /\ precision = 0 /\ once = << >> /\ twice = << >>

\* No output path, no archive written, no message handled.
NoPaths == output_file = << >> /\ archive = << >> /\ report = << >>

\* No graph is loaded and no pass has been called.
NothingLoaded ==
    /\ model = << >> /\ pre = << >>
    /\ engine = "unobserved" /\ tuple_is_a = "unobserved"
    /\ last = "" /\ arg = "" /\ volume = NoVolumes /\ ret = 0
    /\ forced = {} /\ raised = FALSE
    /\ stats = << >> /\ written = << >>

InitGraph ==
    /\ \E ty \in Typings : \E g \in Build(ty, NumEntities) : Acyclic(g) /\ model = g
    /\ NoDriver /\ NoText /\ NoPaths /\ messages = << >>
    /\ engine = "unobserved"
    /\ tuple_is_a = "unobserved"
    /\ pre = model
    /\ last = ""
    /\ arg = ""
    /\ volume = NoVolumes
    /\ ret = 0
    /\ forced = {}
    /\ raised = FALSE
    /\ stats = << >>
    /\ written = << >>

\* One call of each pass on the current graph.
Run_merge_cartesian_points ==
    \E eng \in EngineChoices :
        Finish(merge_cartesian_points(model, eng), eng, "merge_cartesian_points", "", NoVolumes)

Run_model_level_dedupe(entity_type) ==
    \E eng \in EngineChoices :
        Finish(model_level_dedupe(model, eng, entity_type), eng,
               "model_level_dedupe", entity_type, NoVolumes)

Run_remove_placeholder_properties(placeholder) ==
    \E eng \in EngineChoices :
        Finish(remove_placeholder_properties(model, eng, placeholder), eng,
               "remove_placeholder_properties", placeholder, NoVolumes)

Run_remove_unused_spaces ==
    \E eng \in EngineChoices : \E tup \in TupleChoices :
        FinishWith(remove_unused_spaces(model, eng, tup), eng,
                   IF AsksTupleIsA(model) THEN tup ELSE tuple_is_a,
                   "remove_unused_spaces", "", NoVolumes)

Run_remove_metadata ==
    \E eng \in EngineChoices :
        Finish(remove_metadata(model, eng), eng, "remove_metadata", "", NoVolumes)

Run_remove_empty_attributes ==
    \E eng \in EngineChoices :
        Finish(remove_empty_attributes(model, eng), eng, "remove_empty_attributes", "", NoVolumes)

Run_remove_unused_property_sets ==
    \E eng \in EngineChoices :
        Finish(remove_unused_property_sets(model, eng), eng,
               "remove_unused_property_sets", "", NoVolumes)

Run_remove_unused_materials ==
    \E eng \in EngineChoices :
        Finish(remove_unused_materials(model, eng), eng, "remove_unused_materials", "", NoVolumes)

Run_remove_unused_classifications ==
    \E eng \in EngineChoices :
        Finish(remove_unused_classifications(model, eng), eng,
               "remove_unused_classifications", "", NoVolumes)

Run_remove_small_elements(min_volume) ==
    \E eng \in EngineChoices : \E vols \in [Measured(model) -> VolumeResults] :
        Finish(remove_small_elements(model, eng, min_volume, vols), eng,
               "remove_small_elements", min_volume, vols)

Run_remove_orphaned_entities ==
    \E eng \in EngineChoices :
        Finish(remove_orphaned_entities(model, eng), eng, "remove_orphaned_entities", "", NoVolumes)

Run_deduplicate_geometry ==
    \E eng \in EngineChoices :
        Finish(deduplicate_geometry(model, eng), eng, "deduplicate_geometry", "", NoVolumes)

Run_flatten_spatial_structure ==
    \E eng \in EngineChoices :
        Finish(flatten_spatial_structure(model, eng), eng,
               "flatten_spatial_structure", "", NoVolumes)

----------------------------------------------------------------------------
(* CallSpec: the pass functions called directly on a loaded graph, once,   *)
(* and once more with the same arguments.                                  *)

\* The entity types model_level_dedupe is called with (optimize_ifc).
DedupeTypes == {"IfcPropertySet", "IfcClassificationReference"}

CallInit == InitGraph /\ pc = "idle" /\ options = << >>

CanCall(name, a) == pc = "idle" \/ (pc = "called" /\ last = name /\ arg = a /\ ~ raised)

Called == /\ pc' = IF pc = "idle" THEN "called" ELSE "again"
          /\ UNCHANGED << options, stats, written, driverVars, messages, pathVars, textVars >>

Call_merge_cartesian_points ==
    CanCall("merge_cartesian_points", "") /\ Run_merge_cartesian_points /\ Called

Call_model_level_dedupe ==
    \E entity_type \in DedupeTypes :
        CanCall("model_level_dedupe", entity_type) /\ Run_model_level_dedupe(entity_type) /\ Called

Call_remove_placeholder_properties ==
    CanCall("remove_placeholder_properties", "-")
    /\ Run_remove_placeholder_properties("-") /\ Called

Call_remove_unused_spaces ==
    CanCall("remove_unused_spaces", "") /\ Run_remove_unused_spaces /\ Called

Call_remove_metadata ==
    CanCall("remove_metadata", "") /\ Run_remove_metadata /\ Called

Call_remove_empty_attributes ==
    CanCall("remove_empty_attributes", "") /\ Run_remove_empty_attributes /\ Called

Call_remove_unused_property_sets ==
    CanCall("remove_unused_property_sets", "") /\ Run_remove_unused_property_sets /\ Called

Call_remove_unused_materials ==
    CanCall("remove_unused_materials", "") /\ Run_remove_unused_materials /\ Called

Call_remove_unused_classifications ==
    CanCall("remove_unused_classifications", "") /\ Run_remove_unused_classifications /\ Called

Call_remove_small_elements ==
    CanCall("remove_small_elements", "0.001") /\ Run_remove_small_elements("0.001") /\ Called

Call_remove_orphaned_entities ==
    CanCall("remove_orphaned_entities", "") /\ Run_remove_orphaned_entities /\ Called

Call_deduplicate_geometry ==
    CanCall("deduplicate_geometry", "") /\ Run_deduplicate_geometry /\ Called

Call_flatten_spatial_structure ==
    CanCall("flatten_spatial_structure", "") /\ Run_flatten_spatial_structure /\ Called

CallNext ==
    \/ Call_merge_cartesian_points
    \/ Call_model_level_dedupe
    \/ Call_remove_placeholder_properties
    \/ Call_remove_unused_spaces
    \/ Call_remove_metadata
    \/ Call_remove_empty_attributes
    \/ Call_remove_unused_property_sets
    \/ Call_remove_unused_materials
    \/ Call_remove_unused_classifications
    \/ Call_remove_small_elements
    \/ Call_remove_orphaned_entities
    \/ Call_deduplicate_geometry
    \/ Call_flatten_spatial_structure

CallSpec == CallInit /\ [][CallNext]_vars

----------------------------------------------------------------------------
(* Spec: optimize_ifc, from its call to its return or its raise.           *)

\* The option keys of the passes, in the order optimize_ifc tests them.
StageOrder ==
    << "merge_cartesian", "dedupe_property_sets", "dedupe_classifications",
       "remove_dash_props", "remove_unused_spaces", "remove_metadata",
       "remove_empty_attributes", "remove_unused_property_sets",
       "remove_unused_materials", "remove_unused_classifications",
       "remove_small_elements", "remove_orphaned_entities",
       "deduplicate_geometry", "flatten_spatial_structure" >>

PassKeys == {StageOrder[k] : k \in DOMAIN StageOrder}

\* The value an option key is given when it is set and when it is cleared.
OnValue(key) == IF key = "remove_small_elements" THEN "0.001" ELSE TRUE

OffValue(key) == IF key = "remove_small_elements" THEN "0.0" ELSE FALSE

\* The option keys of the file-level steps, with the values they are set to.
FileKeys == {"convert_schema", "target_schema", "lossy_rounding", "ifczip_compress"}

FileValue(key) ==
    CASE key = "target_schema" -> "IFC4"
      [] key = "lossy_rounding" -> 2
      [] OTHER -> TRUE

\* Every pass and every file-level step asked for.
EverythingOn ==
    [k \in PassKeys \cup FileKeys |-> IF k \in PassKeys THEN OnValue(k) ELSE FileValue(k)]

\* The options mappings optimize_ifc is called with: no key, one pass key
\* set, every pass key cleared, file-level keys alone (a conversion without
\* its target_schema among them), or every key set.
OptionFamily ==
    { << >> }
    \cup { [k \in {key} |-> OnValue(key)] : key \in PassKeys }
    \cup { [k \in PassKeys |-> OffValue(k)] }
    \cup { [k \in K |-> FileValue(k)] :
              K \in { {"convert_schema", "target_schema"}, {"convert_schema"},
                      {"lossy_rounding"}, {"ifczip_compress"},
                      {"convert_schema", "target_schema", "lossy_rounding"} } }
    \cup { EverythingOn }

\* The test optimize_ifc makes before a step: options.get(key), and for
\* remove_small_elements and lossy_rounding, key in options.
Tested(opts, key) ==
    IF key \in {"remove_small_elements", "lossy_rounding"} THEN key \in DOMAIN opts
    ELSE key \in DOMAIN opts /\ opts[key]

\* Where control goes after stage k, the last pass whose test succeeds
\* taken for the next one.
NextStage_Last(opts, k) ==
    LET later == {j \in DOMAIN StageOrder : j > k /\ Tested(opts, StageOrder[j])}
    IN  IF later = {} THEN "write" ELSE StageOrder[CHOOSE j \in later : \A i \in later : i <= j]

\* Where control goes after stage k: the next pass whose test succeeds, or
\* the write.
NextStage(opts, k) ==
    LET later == {j \in DOMAIN StageOrder : j > k /\ Tested(opts, StageOrder[j])}
    IN  IF later = {} THEN "write" ELSE StageOrder[Min(later)]

StageIndex(key) == CHOOSE k \in DOMAIN StageOrder : StageOrder[k] = key

\* Where control goes after the conversion, after the write and after the
\* compression.
AfterConvert(opts) == IF Tested(opts, "lossy_rounding") THEN "round" ELSE "load"

EntryStage(opts) == IF Tested(opts, "convert_schema") THEN "convert" ELSE AfterConvert(opts)

AfterCompress(files) == IF files # << >> THEN "cleanup" ELSE "returned"

AfterWrite(opts, files) ==
    IF Tested(opts, "ifczip_compress") THEN "compress" ELSE AfterCompress(files)

\* The error without the prefix of the except clause.
Wrap_Bare(cause) == << cause >>

\* except Exception as e: raise RuntimeError(f"Optimization failed: {str(e)}")
Wrap(cause) == << "Optimization failed", cause >>

Fail(cause) == pc' = "raised" /\ error' = Wrap(cause)

\* A step of optimize_ifc begins.
Begin(step) == steps' = Append(steps, step)

\* A path is the list of the dot-separated pieces of its file name, none of
\* them empty ("optimized_a.ifc" is << "optimized_a", "ifc" >>); both
\* derivations below leave its directory part as it is.
DefaultOutput == << "optimized_a", "ifc" >>

\* The output paths the window is given: the default "optimized_<input
\* name>" of browse_input, and a name typed without extension.
OutputPaths == { DefaultOutput, << "optimized_a" >> }

\* output_path + ".ifczip"
AddSuffix(path, suffix) == Append(path, suffix)

\* Path(output_file).with_suffix(".ifczip").as_posix(): the last extension,
\* when the name has one, is replaced; otherwise the suffix is added.
WithSuffix(path, suffix) ==
    IF Len(path) >= 2 THEN Append(SubSeq(path, 1, Len(path) - 1), suffix)
    ELSE Append(path, suffix)

\* optimize_ifc is called: nothing is loaded yet.
Init ==
    /\ options \in OptionFamily
    /\ pc = EntryStage(options)
    /\ NothingLoaded
    /\ NoDriver /\ NoText /\ messages = << >>
    /\ output_file = DefaultOutput /\ archive = << >> /\ report = << >>

\* 1. convert_schema(input_path, tmp_schema, options["target_schema"]):
\* the key is missing, or the conversion fails (having written its output
\* or not), or the converted file is there and is listed.
Convert ==
    /\ pc = "convert"
    /\ Begin("convert")
    /\ \/ /\ "target_schema" \notin DOMAIN options
          /\ Fail("'target_schema'")
          /\ UNCHANGED << tmp_files, disk >>
       \/ /\ "target_schema" \in DOMAIN options
          /\ \E left \in BOOLEAN :
                /\ Fail("Schema conversion failed")
                /\ disk' = IF left THEN disk \cup {".conv.ifc"} ELSE disk
                /\ UNCHANGED tmp_files
       \/ /\ "target_schema" \in DOMAIN options
          /\ disk' = disk \cup {".conv.ifc"}
          /\ tmp_files' = Append(tmp_files, ".conv.ifc")
          /\ pc' = AfterConvert(options)
          /\ UNCHANGED error
    /\ UNCHANGED << passVars, options, stats, written, messages, pathVars, textVars >>

\* 2. the rounded copy: reading or writing fails (the copy created or not),
\* or the copy is there and is listed.
Round ==
    /\ pc = "round"
    /\ Begin("round")
    /\ \/ \E left \in BOOLEAN :
             /\ Fail("rounding")
             /\ disk' = IF left THEN disk \cup {".round.ifc"} ELSE disk
             /\ UNCHANGED tmp_files
       \/ /\ disk' = disk \cup {".round.ifc"}
          /\ tmp_files' = Append(tmp_files, ".round.ifc")
          /\ pc' = "load"
          /\ UNCHANGED error
    /\ UNCHANGED << passVars, options, stats, written, messages, pathVars, textVars >>

\* 3. model = ifcopenshell.open(input_path); stats = {}
Load ==
    /\ pc = "load"
    /\ Begin("load")
    /\ \/ /\ Fail("open")
          /\ UNCHANGED << model, pre >>
       \/ /\ \E ty \in Typings : \E g \in Build(ty, NumEntities) :
                Acyclic(g) /\ model' = g /\ pre' = g
          /\ pc' = NextStage(options, 0)
          /\ UNCHANGED error
    /\ UNCHANGED << engine, tuple_is_a, last, arg, volume, ret, forced, raised >>
    /\ UNCHANGED << options, stats, written, tmp_files, disk, messages, pathVars, textVars >>

\* stats[stat] = <the pass>; a pass that raises ends optimize_ifc.
Record(key, stat) ==
    /\ Begin(key)
    /\ pc' = IF raised' THEN "raised" ELSE NextStage(options, StageIndex(key))
    /\ error' = IF raised' THEN Wrap("pass") ELSE error
    /\ stats' = IF raised' THEN stats
                ELSE [s \in DOMAIN stats \cup {stat} |-> IF s = stat THEN ret' ELSE stats[s]]
    /\ UNCHANGED << options, written, tmp_files, disk, messages, pathVars, textVars >>

Step_merge_cartesian ==
    pc = "merge_cartesian" /\ Run_merge_cartesian_points
    /\ Record("merge_cartesian", "merged_points")

Step_dedupe_property_sets ==
    pc = "dedupe_property_sets" /\ Run_model_level_dedupe("IfcPropertySet")
    /\ Record("dedupe_property_sets", "dup_psets")

Step_dedupe_classifications ==
    pc = "dedupe_classifications" /\ Run_model_level_dedupe("IfcClassificationReference")
    /\ Record("dedupe_classifications", "dup_class")

Step_remove_dash_props ==
    pc = "remove_dash_props" /\ Run_remove_placeholder_properties("-")
    /\ Record("remove_dash_props", "dash_props")

Step_remove_unused_spaces ==
    pc = "remove_unused_spaces" /\ Run_remove_unused_spaces
    /\ Record("remove_unused_spaces", "spaces")

Step_remove_metadata ==
    pc = "remove_metadata" /\ Run_remove_metadata
    /\ Record("remove_metadata", "metadata")

Step_remove_empty_attributes ==
    pc = "remove_empty_attributes" /\ Run_remove_empty_attributes
    /\ Record("remove_empty_attributes", "empty_attrs")

Step_remove_unused_property_sets ==
    pc = "remove_unused_property_sets" /\ Run_remove_unused_property_sets
    /\ Record("remove_unused_property_sets", "psets_unused")

Step_remove_unused_materials ==
    pc = "remove_unused_materials" /\ Run_remove_unused_materials
    /\ Record("remove_unused_materials", "materials_unused")

Step_remove_unused_classifications ==
    pc = "remove_unused_classifications" /\ Run_remove_unused_classifications
    /\ Record("remove_unused_classifications", "class_unused")

Step_remove_small_elements ==
    pc = "remove_small_elements"
    /\ Run_remove_small_elements(options["remove_small_elements"])
    /\ Record("remove_small_elements", "small_elems")

Step_remove_orphaned_entities ==
    pc = "remove_orphaned_entities" /\ Run_remove_orphaned_entities
    /\ Record("remove_orphaned_entities", "orphans")

Step_deduplicate_geometry ==
    pc = "deduplicate_geometry" /\ Run_deduplicate_geometry
    /\ Record("deduplicate_geometry", "dup_geo")

Step_flatten_spatial_structure ==
    pc = "flatten_spatial_structure" /\ Run_flatten_spatial_structure
    /\ Record("flatten_spatial_structure", "spatial")

\* 5. model.write(output_path)
Write ==
    /\ pc = "write"
    /\ Begin("write")
    /\ \/ /\ Fail("write")
          /\ UNCHANGED written
       \/ /\ written' = << model >>
          /\ pc' = AfterWrite(options, tmp_files)
          /\ UNCHANGED error
    /\ UNCHANGED << passVars, options, stats, tmp_files, disk, messages, pathVars, textVars >>

\* write_ifczip(output_path, output_path + ".ifczip")
Compress ==
    /\ pc = "compress"
    /\ Begin("compress")
    /\ \/ /\ Fail("ifczip")
          /\ UNCHANGED << disk, archive >>
       \/ /\ disk' = disk \cup {".ifczip"}
          /\ archive' = << AddSuffix(output_file, "ifczip") >>
          /\ pc' = AfterCompress(tmp_files)
          /\ UNCHANGED error
    /\ UNCHANGED << passVars, options, stats, written, tmp_files, messages, textVars >>
    /\ UNCHANGED << output_file, report >>

\* 6. for f in tmp_files: os.remove(f), the first n of them succeeding;
\* return stats
Cleanup ==
    /\ pc = "cleanup"
    /\ Begin("cleanup")
    /\ \E n \in 0 .. Len(tmp_files) :
          /\ disk' = disk \ {tmp_files[k] : k \in 1 .. n}
          /\ IF n = Len(tmp_files)
             THEN pc' = "returned" /\ UNCHANGED error
             ELSE Fail("os.remove")
    /\ UNCHANGED << passVars, options, stats, written, tmp_files, messages, pathVars, textVars >>

Next ==
    \/ Convert
    \/ Round
    \/ Load
    \/ Step_merge_cartesian
    \/ Step_dedupe_property_sets
    \/ Step_dedupe_classifications
    \/ Step_remove_dash_props
    \/ Step_remove_unused_spaces
    \/ Step_remove_metadata
    \/ Step_remove_empty_attributes
    \/ Step_remove_unused_property_sets
    \/ Step_remove_unused_materials
    \/ Step_remove_unused_classifications
    \/ Step_remove_small_elements
    \/ Step_remove_orphaned_entities
    \/ Step_deduplicate_geometry
    \/ Step_flatten_spatial_structure
    \/ Write
    \/ Compress
    \/ Cleanup

Spec == Init /\ [][Next]_vars

----------------------------------------------------------------------------
(* GuiSpec: one run of the background worker OptimizerThread (gui.py): it  *)
(* calls optimize_ifc with the options the window gathered and emits its   *)
(* finished signal, which the window handles.                              *)

\* The options run_optimizer gathers: the checked keys, and always
\* convert_schema and target_schema.  Nothing checked, or everything.
GuiOptionFamily ==
    { [k \in {"convert_schema", "target_schema"} |->
          IF k = "convert_schema" THEN FALSE ELSE FileValue(k)],
      EverythingOn }

\* Both emit calls of run made, one after the other.
Completion_Both(err, st) ==
    << [error |-> << >>, output_file |-> output_file, stats |-> st],
       [error |-> err, output_file |-> output_file, stats |-> << >>] >>

\* What run emits: (None, output_file, stats) after optimize_ifc returned,
\* (str(e), output_file, {}) after it raised.
Completion(err, st) ==
    IF err = << >>
    THEN << [error |-> << >>, output_file |-> output_file, stats |-> st] >>
    ELSE << [error |-> err, output_file |-> output_file, stats |-> << >>] >>

GuiInit ==
    /\ options \in GuiOptionFamily
    /\ pc = EntryStage(options)
    /\ NothingLoaded
    /\ NoDriver /\ NoText /\ messages = << >>
    /\ output_file \in OutputPaths /\ archive = << >> /\ report = << >>

\* self.finished.emit(...): the try branch or the except branch of run.
Emit ==
    /\ pc \in {"returned", "raised"}
    /\ messages' = messages \o Completion(error, stats)
    /\ pc' = "finished"
    /\ UNCHANGED << passVars, options, stats, written, driverVars, pathVars, textVars >>

\* The file os.path.getsize(out_path) finds in on_optimization_finished:
\* the output optimize_ifc wrote, the archive it wrote, or, under any other
\* path, nothing or a file that is not of this run.
SizeOf(path) ==
    IF written # << >> /\ path = output_file THEN {"output"}
    ELSE IF archive = << path >> THEN {"archive"}
    ELSE {"missing", "other"}

\* on_optimization_finished(error, output_file, stats), for the next message
\* not yet handled: the error box, or the path to report and measure and
\* then the success box, unless getsize raises on a missing file.
OnFinished ==
    /\ pc = "finished"
    /\ Len(report) < Len(messages)
    /\ LET msg == messages[Len(report) + 1]
           out_path == IF Tested(options, "ifczip_compress")
                       THEN WithSuffix(msg.output_file, "ifczip")
                       ELSE msg.output_file
       IN  IF msg.error # << >>
           THEN report' = Append(report, [out_path |-> << >>, measured |-> "nothing",
                                          box |-> "critical"])
           ELSE \E found \in SizeOf(out_path) :
                   report' = Append(report,
                                    [out_path |-> out_path, measured |-> found,
                                     box |-> IF found = "missing" THEN "none"
                                             ELSE "information"])
    /\ UNCHANGED << passVars, pc, options, stats, written, driverVars, messages,
                    output_file, archive, textVars >>

GuiNext == Next \/ Emit \/ OnFinished

GuiSpec == GuiInit /\ [][GuiNext]_vars

----------------------------------------------------------------------------
(* CliSpec: the command-line entry point main: it parses the command line, *)
(* builds the options mapping, calls optimize_ifc and prints the stats.    *)

\* The store_true arguments of the parser, by their dest.
FlagArgs == (PassKeys \ {"remove_small_elements"}) \cup {"ifczip_compress"}

\* The arguments that take a value (default None), by their dest.
ValueArgs == {"convert_schema", "lossy_rounding", "remove_small_elements"}

\* Every argument given.
FullCommandLine ==
    [k \in FlagArgs \cup ValueArgs |->
        CASE k = "convert_schema" -> "IFC4"
          [] k = "lossy_rounding" -> 2
          [] k = "remove_small_elements" -> "0.001"
          [] OTHER -> TRUE]

\* A command line is the mapping from the arguments given on it to their
\* values: none, --convert-schema IFC4 alone, everything else, everything.
CommandLines ==
    { [k \in K |-> FullCommandLine[k]] :
        K \in { {}, {"convert_schema"}, (FlagArgs \cup ValueArgs) \ {"convert_schema"},
                FlagArgs \cup ValueArgs } }

\* options = {k: v for k, v in vars(args).items()
\*            if k not in {"input", "output"} and v is not None}:
\* a flag is True when given and False otherwise, a valued argument is None
\* unless given.  The schema name under convert_schema is kept as its truth
\* value, the only thing optimize_ifc looks at.
main_options(cl) ==
    [k \in FlagArgs \cup (ValueArgs \cap DOMAIN cl) |->
        CASE k = "convert_schema" -> cl[k] # ""
          [] k \in DOMAIN cl -> cl[k]
          [] OTHER -> FALSE]

CliInit ==
    /\ \E cl \in CommandLines : options = main_options(cl)
    /\ pc = EntryStage(options)
    /\ NothingLoaded
    /\ NoDriver /\ NoText /\ messages = << >>
    /\ output_file = DefaultOutput /\ archive = << >> /\ report = << >>

\* main after optimize_ifc: the stats are printed, or the error leaves main.
Exit ==
    /\ pc \in {"returned", "raised"}
    /\ pc' = IF pc = "returned" THEN "printed" ELSE "uncaught"
    /\ UNCHANGED << passVars, options, stats, written, driverVars, messages,
                    pathVars, textVars >>

CliNext == Next \/ Exit

CliSpec == CliInit /\ [][CliNext]_vars

----------------------------------------------------------------------------
(* RoundSpec: apply_lossy_rounding applied to a text, and applied again to *)
(* its result.  The text is one IFCCARTESIANPOINT record, as the list of   *)
(* its comma-separated fields; the text around the record is copied as it  *)
(* is.  A number is a sign and a magnitude counted in units of             *)
(* 10^-MaxPrecision.                                                       *)

MaxPrecision == 1

MaxScaled == 5

MaxFields == 2

RECURSIVE Pow10(_)
Pow10(n) == IF n = 0 THEN 1 ELSE 10 * Pow10(n - 1)

\* A field of the record: a number, spelled as str() prints it ("repr") or
\* otherwise (padded with blanks, "2." for "2.0", ...), or a text float()
\* rejects, padded with blanks or not.
Fields ==
    [kind : {"num"}, sign : {1, -1}, mag : 0 .. MaxScaled, spelling : {"repr", "other"}]
    \cup [kind : {"bad"}, sign : {1}, mag : {0}, spelling : {"stripped", "padded"}]

Texts == UNION {[1 .. n -> Fields] : n \in 0 .. MaxFields}

\* float(c) of a field that float() accepts: the number, whatever its spelling.
Float(c) == [sign |-> c.sign, mag |-> c.mag]

\* str(x): the number in the spelling str() prints.
Str(x) == [kind |-> "num", sign |-> x.sign, mag |-> x.mag, spelling |-> "repr"]

\* c.strip()
StripField(c) ==
    IF c.kind = "bad" THEN [c EXCEPT !.spelling = "stripped"]
    ELSE c

\* Rounding that always goes on to the next multiple of the step.
RoundTo_NextStep(x, p, tie) ==
    LET step == Pow10(MaxPrecision - p)
    IN  [x EXCEPT !.mag = ((@ \div step) + 1) * step]

\* round(x, p): to the nearest multiple of 10^-p; a value halfway between two
\* multiples goes down or up (tie), as its binary representation decides.
RoundTo(x, p, tie) ==
    LET step == Pow10(MaxPrecision - p)
        low  == (x.mag \div step) * step
        rest == x.mag % step
    IN  [x EXCEPT !.mag = IF 2 * rest < step THEN low
                          ELSE IF 2 * rest > step THEN low + step
                          ELSE IF tie = "down" THEN low ELSE low + step]

\* One field of _round: str(round(float(c), precision)), or c when float()
\* raises ValueError.
RoundField(c, p, tie) ==
    IF StripField(c).kind = "num" THEN Str(RoundTo(Float(StripField(c)), p, tie))
    ELSE StripField(c)

\* apply_lossy_rounding(raw, precision): the record is rewritten field by
\* field; a record without fields does not match the pattern and stays.
apply_lossy_rounding(text, p, ties) ==
    [k \in DOMAIN text |-> RoundField(text[k], p, ties[k])]

Ties(text) == [DOMAIN text -> {"down", "up"}]

RoundInit ==
    /\ raw \in Texts
    /\ precision \in 0 .. MaxPrecision
    /\ once = << >> /\ twice = << >>
    /\ pc = "text"
    /\ options = << >>
    /\ NothingLoaded /\ NoDriver /\ NoPaths /\ messages = << >>

ApplyOnce ==
    /\ pc = "text"
    /\ \E ties \in Ties(raw) : once' = apply_lossy_rounding(raw, precision, ties)
    /\ pc' = "once"
    /\ UNCHANGED << raw, precision, twice >>
    /\ UNCHANGED << passVars, options, stats, written, driverVars, messages, pathVars >>

ApplyAgain ==
    /\ pc = "once"
    /\ \E ties \in Ties(once) : twice' = apply_lossy_rounding(once, precision, ties)
    /\ pc' = "twice"
    /\ UNCHANGED << raw, precision, once >>
    /\ UNCHANGED << passVars, options, stats, written, driverVars, messages, pathVars >>

RoundNext == ApplyOnce \/ ApplyAgain

RoundSpec == RoundInit /\ [][RoundNext]_vars

----------------------------------------------------------------------------
(* Properties.                                                             *)

\* The last pass called was name, and it returned.
After(name) == pc \in {"called", "again"} /\ last = name /\ ~ raised

\* The entities the last pass removed.
Removed == DOMAIN pre \ DOMAIN model

\* Some entity of g refers to an identifier that g does not hold.
Dangling(g) == \E i \in DOMAIN g : ~ (RefsOf(g[i]) \subseteq DOMAIN g)

\* C1: when optimize_ifc returns, no entity of the written graph refers to
\* an entity that a pass removed.
C1_ReferentialIntegrity == pc = "returned" => ~ Dangling(written[1])

\* C2: no pass removes, without retargeting, an entity that some entity
\* still refers to at the moment of the removal (remove_unused_spaces,
\* remove_metadata, remove_small_elements and flatten_spatial_structure
\* included): such a removal is refused.
C2_DefectGuard ==
    last \in {"remove_unused_spaces", "remove_metadata", "remove_small_elements",
              "flatten_spatial_structure"}
        => forced = {}

\* C3: model_level_dedupe called a second time right after the first, with
\* the same entity type, returns 0.
C3_DedupIdempotent ==
    (pc = "again" /\ last = "model_level_dedupe" /\ ~ raised) => ret = 0

\* The entities of g that are of type T.
OfType(g, T) == {i \in DOMAIN g : IsA(g[i].type, T)}

\* The type the last pass deduplicates, and the key it groups by, taken on
\* the graph the pass was called on.
DedupTarget == IF last = "merge_cartesian_points" THEN "IfcCartesianPoint" ELSE arg

KeyAtStart(i) ==
    IF last = "merge_cartesian_points" THEN << pre[i].val >>
    ELSE << pre[i].type, pre[i].val, pre[i].refs >>

GroupAtStart(i) == {j \in OfType(pre, DedupTarget) : KeyAtStart(j) = KeyAtStart(i)}

\* C4: after merge_cartesian_points or model_level_dedupe, of every group of
\* entities with equal key no member other than the first in by-type order
\* survives (stated on the keys of the graph the pass was called on; a
\* member whose key the pass itself changed may go as well).
C4_FirstOfGroupSurvives ==
    (pc = "called" /\ (After("merge_cartesian_points") \/ After("model_level_dedupe")))
        => \A i \in OfType(pre, DedupTarget) :
              (GroupAtStart(i) \cap DOMAIN model) \subseteq {Min(GroupAtStart(i))}

\* The first point, in by-type order, with the coordinates of point p.
FirstPointLike(p) ==
    Min({q \in OfType(pre, "IfcCartesianPoint") : pre[q].val = pre[p].val})

\* C5: after merge_cartesian_points every slot that held a removed point
\* holds the surviving first point of the same coordinates, and the returned
\* count is the number of points removed.
C5_MergeRedirects ==
    After("merge_cartesian_points")
        => /\ ret = Cardinality(Removed)
           /\ \A e \in DOMAIN pre : \A k \in DOMAIN pre[e].refs :
                 pre[e].refs[k] \in Removed
                    => /\ e \in DOMAIN model
                       /\ model[e].refs[k] = FirstPointLike(pre[e].refs[k])
                       /\ model[e].refs[k] \in DOMAIN model
                       /\ model[model[e].refs[k]].val = pre[pre[e].refs[k]].val

C5_Witness ==
    /\ pc = "called" /\ After("merge_cartesian_points")
    /\ \E e \in DOMAIN pre : \E k \in DOMAIN pre[e].refs : pre[e].refs[k] \in Removed
    /\ Cardinality(Removed) >= 2

\* C6: merge_cartesian_points and model_level_dedupe remove only entities of
\* the type they deduplicate; the entities of every other type are the same
\* before and after.
C6_DedupFrame ==
    (After("merge_cartesian_points") \/ After("model_level_dedupe"))
        => /\ \A i \in Removed : IsA(pre[i].type, DedupTarget)
           /\ \A T \in Types \ {DedupTarget} : OfType(model, T) = OfType(pre, T)
           /\ \A i \in DOMAIN model : i \in DOMAIN pre /\ model[i].type = pre[i].type

C6_Witness ==
    /\ pc = "called" /\ After("model_level_dedupe")
    /\ Removed # {}
    /\ \E T \in Types \ {DedupTarget} : Cardinality(OfType(pre, T)) >= 2

\* The relationship types, and those of a protected kind (containment,
\* aggregation, nesting, property and type definition, assignment,
\* connection).
RelationshipTypes ==
    { "IfcRelAggregates", "IfcRelContainedInSpatialStructure", "IfcRelDefinesByProperties",
      "IfcRelAssignsToGroup", "IfcRelAssociatesMaterial", "IfcRelAssociatesClassification" }

ProtectedRelationshipTypes ==
    { "IfcRelAggregates", "IfcRelContainedInSpatialStructure", "IfcRelDefinesByProperties",
      "IfcRelAssignsToGroup" }

\* C7: remove_orphaned_entities removes no relationship of a protected kind,
\* referenced or not, and no non-relationship entity that some entity
\* referred to when the pass started.
C7_OrphanConservative ==
    After("remove_orphaned_entities")
        => \A i \in DOMAIN pre :
              ( \/ pre[i].type \in ProtectedRelationshipTypes
                \/ (pre[i].type \notin RelationshipTypes /\ GetInverse(pre, i) # {}) )
                 => i \in DOMAIN model

C7_Witness ==
    /\ pc = "called" /\ After("remove_orphaned_entities")
    /\ Removed # {}
    /\ \E i \in DOMAIN pre :
          pre[i].type = "IfcRelAssignsToGroup" /\ GetInverse(pre, i) = {}
    /\ \E i \in DOMAIN pre :
          pre[i].type \notin RelationshipTypes /\ GetInverse(pre, i) # {}

\* Every property attached to property set p of g is a single-value property
\* whose value is the placeholder.
AllPlaceholders(g, p, placeholder) ==
    \A k \in DOMAIN g[p].refs :
        g[p].refs[k] # NULL
            => /\ g[p].refs[k] \in DOMAIN g
               /\ g[g[p].refs[k]].type = "IfcPropertySingleValue"
               /\ g[g[p].refs[k]].val = placeholder

DefiningRels(g, p) ==
    {r \in GetInverse(g, p) : g[r].type = "IfcRelDefinesByProperties"}

\* C8: after remove_placeholder_properties, a property set all of whose
\* properties are single-value properties equal to the placeholder is gone,
\* and so is every defines-by-properties relation that referred to it.
C8_PlaceholderSetsRemoved ==
    After("remove_placeholder_properties")
        => \A p \in OfType(pre, "IfcPropertySet") :
              AllPlaceholders(pre, p, arg)
                 => /\ p \notin DOMAIN model
                    /\ \A r \in DefiningRels(pre, p) : r \notin DOMAIN model

C8_Witness ==
    /\ pc = "called" /\ After("remove_placeholder_properties")
    /\ \E p \in OfType(pre, "IfcPropertySet") :
          /\ AllPlaceholders(pre, p, arg)
          /\ RefsOf(pre[p]) # {}
          /\ DefiningRels(pre, p) # {}

\* A defines-by-properties relation of g that defines nothing: it names no
\* property set, or one without properties.
EmptyDefinition(g, r) ==
    /\ g[r].type = "IfcRelDefinesByProperties"
    /\ \/ g[r].refs[2] = NULL
       \/ g[r].refs[2] \notin DOMAIN g
       \/ RefsOf(g[g[r].refs[2]]) = {}

\* A space of g with no inbound reference other than placements and empty
\* property-definition relations.
UnusedSpace(g, s) ==
    \A r \in GetInverse(g, s) : g[r].type = "IfcLocalPlacement" \/ EmptyDefinition(g, r)

\* C9: remove_unused_spaces removes a space exactly when it has no inbound
\* reference other than its placement and empty property-definition
\* relations, and returns the number of spaces removed.
C9_UnusedSpaces ==
    After("remove_unused_spaces")
        => /\ \A s \in OfType(pre, "IfcSpace") : (s \in Removed) <=> UnusedSpace(pre, s)
           /\ ret = Cardinality(Removed \cap OfType(pre, "IfcSpace"))

\* C10: remove_unused_property_sets removes a property set that has no
\* properties and no inbound reference; and one without properties whose
\* only inbound references are defines-by-properties relations is removed
\* too, after those relations.
C10_UnusedPropertySets ==
    (pc = "called" /\ After("remove_unused_property_sets"))
        => \A p \in OfType(pre, "IfcPropertySet") :
              (RefsOf(pre[p]) = {} /\ GetInverse(pre, p) = DefiningRels(pre, p))
                 => /\ p \notin DOMAIN model
                    /\ \A r \in DefiningRels(pre, p) : r \notin DOMAIN model

\* The elements of g, and whether the volume v is a number below min_volume.
Elements(g) == OfType(g, "IfcElement")

ValidBelow(v, min_volume) == min_volume = "0.001" /\ v \in {"zero", "small"}

\* C11: remove_small_elements removes, and counts, every element that has
\* a representation and whose volume is a number below min_volume, a volume
\* of 0 included.
C11_SmallRemoved ==
    (pc = "called" /\ After("remove_small_elements"))
        => /\ \A e \in Measured(pre) :
                 ValidBelow(volume[e], arg) => e \notin DOMAIN model
           /\ ret = Cardinality({e \in Measured(pre) : ValidBelow(volume[e], arg)})

\* C12: after remove_small_elements an element without representation, or
\* whose volume computation raised, or answered None or not-a-number, or a
\* volume of at least min_volume, is still in the model, and the returned
\* count is the number of elements removed.
C12_NeverRemovedOnFailure ==
    After("remove_small_elements")
        => /\ \A e \in Elements(pre) :
                 ( \/ e \notin Measured(pre)
                   \/ volume[e] \in {"raises", "none", "nan"}
                   \/ ~ ValidBelow(volume[e], arg) )
                    => e \in DOMAIN model
           /\ ret = Cardinality(Removed)

C12_Witness ==
    /\ pc = "called" /\ After("remove_small_elements") /\ arg = "0.001"
    /\ Removed # {}
    /\ \E e \in Measured(pre) : volume[e] = "raises"
    /\ \E e \in Measured(pre) : volume[e] = "nan"

\* The stat key optimize_ifc records the count of a pass under.
StatKey(key) ==
    CASE key = "merge_cartesian" -> "merged_points"
      [] key = "dedupe_property_sets" -> "dup_psets"
      [] key = "dedupe_classifications" -> "dup_class"
      [] key = "remove_dash_props" -> "dash_props"
      [] key = "remove_unused_spaces" -> "spaces"
      [] key = "remove_metadata" -> "metadata"
      [] key = "remove_empty_attributes" -> "empty_attrs"
      [] key = "remove_unused_property_sets" -> "psets_unused"
      [] key = "remove_unused_materials" -> "materials_unused"
      [] key = "remove_unused_classifications" -> "class_unused"
      [] key = "remove_small_elements" -> "small_elems"
      [] key = "remove_orphaned_entities" -> "orphans"
      [] key = "deduplicate_geometry" -> "dup_geo"
      [] key = "flatten_spatial_structure" -> "spatial"

\* A configuration key is enabled: present, and neither False nor 0.0.
Enabled(opts, key) == key \in DOMAIN opts /\ opts[key] # OffValue(key)

\* C13: when optimize_ifc returns, stats holds the stat key of a pass exactly
\* when the configuration key of the pass is enabled (absent or false is
\* disabled), every value is a non-negative integer, and empty options
\* give an empty mapping.
C13_StatsFollowEnablement ==
    pc = "returned"
        => /\ \A key \in PassKeys :
                 StatKey(key) \in DOMAIN stats <=> Enabled(options, key)
           /\ \A st \in DOMAIN stats : stats[st] \in Nat
           /\ options = << >> => stats = << >>

\* The steps of optimize_ifc in the order of its source.
StepOrder ==
    << "convert", "round", "load" >> \o StageOrder \o << "write", "compress", "cleanup" >>

StepNames == {StepOrder[k] : k \in DOMAIN StepOrder}

OrderIndex(step) == CHOOSE k \in DOMAIN StepOrder : StepOrder[k] = step

Executed == {steps[k] : k \in DOMAIN steps}

\* The steps that must have run once the graph is written.
DueBeforeWrite ==
    {key \in PassKeys : Enabled(options, key)}
    \cup {"load"}
    \cup (IF Tested(options, "convert_schema") THEN {"convert"} ELSE {})
    \cup (IF Tested(options, "lossy_rounding") THEN {"round"} ELSE {})

\* C14: the steps of optimize_ifc run in the fixed order conversion,
\* rounding, load, the passes in their order, write, compression, cleanup;
\* every enabled step has run when the graph is written and when
\* optimize_ifc returns; each pass is called on the graph the earlier
\* passes left, and what is written is the graph the last pass left.
C14_FixedOrder ==
    /\ [](/\ \A i, j \in DOMAIN steps :
                i < j => OrderIndex(steps[i]) < OrderIndex(steps[j])
          /\ written # << >> => DueBeforeWrite \subseteq Executed /\ "write" \in Executed
          /\ pc = "returned"
                => /\ written # << >>
                   /\ Tested(options, "ifczip_compress") <=> "compress" \in Executed
                   /\ tmp_files # << >> <=> "cleanup" \in Executed)
    /\ [][/\ steps' # steps => \E step \in StepNames : steps' = Append(steps, step)
          /\ pc \in PassKeys => pre' = model
          /\ written' # written => written' = << model >>]_vars

C14_Witness ==
    /\ pc = "returned" /\ options = EverythingOn
    /\ steps = StepOrder
    /\ model # pre

\* The temp files of optimize_ifc: the converted file and the rounded file.
TempFiles == {".conv.ifc", ".round.ifc"}

\* C15: when optimize_ifc returns or raises, no temp file it created is left.
C15_TempFilesCleaned ==
    pc \in {"returned", "raised"} => disk \cap TempFiles = {}

\* C16: optimize_ifc either returns, with the graph written to output_path,
\* or raises, with output_path not written by this call.
C16_NoPartialSuccess ==
    /\ pc = "returned" => written # << >> /\ error = << >>
    /\ pc = "raised" => written = << >>

\* C17: no failure inside a pass ends optimize_ifc: a pass never raises out
\* of its call, so a run that got past the load reaches the write.
C17_PassFailuresContained ==
    /\ ~ raised
    /\ pc = "raised" => error # Wrap("pass")

\* C18: every failure inside optimize_ifc reaches the caller as the one
\* error "Optimization failed: <cause>", and an error and a returned stats
\* mapping never come together.
C18_UniformWrapping ==
    /\ pc = "raised" => Len(error) = 2 /\ error[1] = "Optimization failed"
    /\ pc = "returned" => error = << >>
    /\ error # << >> => pc = "raised"

C18_Witness ==
    /\ pc = "raised" /\ error = << "Optimization failed", "Schema conversion failed" >>
    /\ steps = << "convert" >>

\* |a - b|
Distance(a, b) == IF a >= b THEN a - b ELSE b - a

\* C19: apply_lossy_rounding applied to its own result, at the same
\* precision, changes nothing; and every number it rounded stays a number at
\* less than 10^-precision from the original.
C19_RoundingIdempotent ==
    /\ pc = "twice" => twice = once
    /\ pc \in {"once", "twice"}
          => /\ DOMAIN once = DOMAIN raw
             /\ \A k \in DOMAIN raw :
                   raw[k].kind = "num"
                      => /\ once[k].kind = "num" /\ once[k].sign = raw[k].sign
                         /\ Distance(once[k].mag, raw[k].mag) < Pow10(MaxPrecision - precision)

C19_Witness ==
    /\ pc = "twice"
    /\ \E k \in DOMAIN raw : raw[k].kind = "num" /\ once[k].mag # raw[k].mag
    /\ \E k \in DOMAIN raw : raw[k].kind = "bad" /\ once[k] # raw[k]

\* C20: a run of the worker emits one completion message, at its end:
\* (no error, output path, stats) when optimize_ifc returned, (error text,
\* output path, empty stats) when it raised, never both; and a message
\* carries an error, a path and counts, never the graph.
C20_OneShotCompletion ==
    /\ pc # "finished" => messages = << >>
    /\ pc = "finished"
          => /\ Len(messages) = 1
             /\ messages[1].output_file = output_file
             /\ IF error = << >>
                THEN messages[1].error = << >> /\ messages[1].stats = stats /\ written # << >>
                ELSE messages[1].error = error /\ messages[1].stats = << >>
             /\ DOMAIN messages[1] = {"error", "output_file", "stats"}
             /\ \A st \in DOMAIN messages[1].stats : messages[1].stats[st] \in Nat

C20_Witness ==
    /\ pc = "finished"
    /\ messages[1].error = Wrap("pass")
    /\ stats # << >>

\* The type whose entities the last pass looks at, for the two passes that
\* remove the unreferenced entities of one type.
UnreferencedTarget ==
    IF last = "remove_unused_materials" THEN "IfcMaterial" ELSE "IfcClassificationReference"

\* The entities of type T of the graph the pass was called on that no entity
\* referred to.
UnreferencedAtStart(T) == {i \in OfType(pre, T) : GetInverse(pre, i) = {}}

\* C21: remove_unused_classifications and remove_unused_materials remove
\* exactly the entities of their type that had no inbound reference when the
\* pass started: an entity that lost its last referrer to a removal of the
\* same pass stays.
C21_DeadSetFixedAtStart ==
    (After("remove_unused_classifications") \/ After("remove_unused_materials"))
        => Removed = UnreferencedAtStart(UnreferencedTarget)

\* The stat keys that count removed entities.
RemovalStats ==
    {StatKey(key) : key \in PassKeys \ {"remove_dash_props", "remove_empty_attributes"}}

\* C22: in a run of optimize_ifc the set of entity identifiers only
\* shrinks: after every pass it is a subset of the set before the pass, and
\* an identifier that stays names an entity of the same type; no pass
\* creates an entity or gives an identifier to another one.
C22_EntitySetShrinks ==
    /\ [](/\ DOMAIN model \subseteq DOMAIN pre
          /\ \A i \in DOMAIN model : model[i].type = pre[i].type)
    /\ [][(pc \in PassKeys)
            => ( /\ DOMAIN model' \subseteq DOMAIN model
                 /\ \A i \in DOMAIN model' : model'[i].type = model[i].type )]_vars

C22_Witness ==
    /\ pc = "returned"
    /\ Cardinality({st \in DOMAIN stats \cap RemovalStats : stats[st] > 0}) >= 2
    /\ DOMAIN written[1] # {} /\ Cardinality(DOMAIN written[1]) < NumEntities

\* The owner histories of the graph the last pass was called on.
HistoriesAtStart == OfType(pre, "IfcOwnerHistory")

\* C23: after remove_metadata on a graph with n >= 1 owner histories exactly
\* one is left, the first in by-type order, and the count returned is n - 1;
\* with no owner history the graph is unchanged and the count is 0.
C23_SeniorHistoryKept ==
    After("remove_metadata")
        => IF HistoriesAtStart # {}
           THEN /\ OfType(model, "IfcOwnerHistory") = {Min(HistoriesAtStart)}
                /\ Removed = HistoriesAtStart \ {Min(HistoriesAtStart)}
                /\ ret = Cardinality(HistoriesAtStart) - 1
           ELSE model = pre /\ ret = 0

C23_Witness ==
    /\ pc = "called" /\ After("remove_metadata")
    /\ Cardinality(HistoriesAtStart) >= 3
    /\ \E i \in DOMAIN pre : RefsOf(pre[i]) \cap Removed # {}

\* C24: when ifczip_compress is enabled and the run succeeded, the archive
\* path the completion handler reports and measures is the path optimize_ifc
\* wrote the archive to, whatever the output path.
C24_ArchivePathAgreement ==
    \A k \in DOMAIN report :
        (messages[k].error = << >> /\ Tested(options, "ifczip_compress"))
            => /\ archive = << report[k].out_path >>
               /\ report[k].measured = "archive"

\* C25: an options mapping built by main in which convert_schema is enabled
\* holds target_schema as well, so that a command line asking for a schema
\* conversion reaches the conversion and does not fail on the missing key.
C25_CliConversionConfigured ==
    (Tested(options, "convert_schema") /\ "convert" \in Executed)
        => /\ "target_schema" \in DOMAIN options
           /\ error # Wrap("'target_schema'")

\* An entity of g that orphan removal may take: neither a project nor an
\* owner history nor a relationship of a protected kind.
Unprotected(g, e) ==
    g[e].type \notin {"IfcProject", "IfcOwnerHistory"} \cup ProtectedRelationshipTypes

\* C26: after remove_orphaned_entities every entity left that is neither of
\* a protected type nor a relationship of a protected kind has an inbound
\* reference, those whose only referrers the pass itself removed included.
C26_NoOrphansLeft ==
    After("remove_orphaned_entities")
        => \A e \in DOMAIN model : Unprotected(model, e) => GetInverse(model, e) # {}

====
